---- MODULE Spec2Model ----
(***************************************************************************)
(* State-machine model of TradingKnowledgeRetriever                        *)
(* (src/trading_retrieval_system.py): the engine's in-memory indices, the  *)
(* two persisted artifacts, the query cache and the three operations       *)
(* build_retrieval_system, load_retrieval_system and retrieve_documents.   *)
(*                                                                         *)
(* Text is a sequence of characters; character 0 is a blank, the other     *)
(* characters are letters.  A Document is a record with its page_content   *)
(* and the two metadata fields that identify it.  Floating-point scores    *)
(* are integers.  retrieval_time (a wall-clock difference) is left out of  *)
(* RetrievalResult.  An embedding is a number and the distance of two      *)
(* embeddings the square of their difference; a query's embedding is the   *)
(* origin and the chunks' embeddings are arbitrary, so every ranking of    *)
(* the chunks by distance occurs.  The embedding call made for a query is  *)
(* taken to succeed; the embedding calls of a build may fail.              *)
(*                                                                         *)
(* The HTTP server of src/backend/main.py is the record `server`: its      *)
(* module globals, its log file and its upload directories.  Of a log      *)
(* entry only the id is kept; conversation memory, analytics and the       *)
(* language-model call of chat_query are left out.                         *)
(***************************************************************************)
EXTENDS Integers, Sequences, FiniteSets, TLC

VARIABLES
    documents,      \* self.documents: the chunk corpus
    vector_store,   \* self.vector_store: the FAISS store, or None
    bm25,           \* self.bm25: the BM25Okapi index, or None
    query_cache,    \* self.query_cache: a dict, or None when caching is off
    faiss_file,     \* the artifact at config.faiss_index_path
    bm25_file,      \* the artifact at config.bm25_data_path
    now,            \* time.time()
    last,           \* what the last call on the engine did and returned
    succeeded,      \* history: some build or load of this engine has succeeded
    config,         \* self.config: the RetrievalConfig the engine was constructed with
    embeddings,     \* self.embeddings: the embedding client construction left
    server,         \* the module globals and storage of the HTTP server (backend/main.py)
    persisted,      \* history: the index set of the engine whose build last wrote
                    \* the storage paths, if that build returned normally
    threads         \* the calls in progress when two threads share the engine

vars == <<documents, vector_store, bm25, query_cache, faiss_file, bm25_file, now, last,
          succeeded, persisted, config, embeddings, server, threads>>

----------------------------------------------------------------------------
(* Bounds and configuration *)

MaxEmb == 1             \* embeddings are the numbers 0..MaxEmb
MaxK == 2               \* k ranges over 0..MaxK, 0 standing for "not given"
MaxNow == 2             \* the clock stops advancing here
MaxDocs == 3            \* longest corpus of the retrieval-only specification
LifeEmb == 0            \* embeddings drawn by the builds of the life-cycle specification
LifeK == 1              \* k ranges over 0..LifeK in the life-cycle specification
cache_ttl == 2          \* config.cache_ttl, in clock ticks
top_k_retrieval == 2    \* config.top_k_retrieval

MaxChunkSize == 2       \* config.chunk_size and config.chunk_overlap range up to here
MaxWorkers == 2         \* config.max_workers ranges over 0..MaxWorkers
MAX_LOG_ENTRIES == 3    \* MAX_LOG_ENTRIES of backend/main.py, scaled down
MaxLogs == 12           \* the handlers log while system_logs has room below MaxLogs
MaxUploads == 2         \* upload directories made by one model run
MaxQueue == 2           \* background tasks added and not yet run
ChatK == 10             \* the k chat_query asks for

\* config.base_url: None, or the address of a custom endpoint
NoBaseUrl == "None"
BaseUrls == {NoBaseUrl, "custom"}

\* the endpoint OpenAIEmbeddings uses when no openai_api_base is passed
DefaultEndpoint == "default"

\* an OpenAIEmbeddings client: the endpoint it calls, and whether a trial
\* embed_query against that endpoint has returned an embedding
Client(endpoint, probed) == [endpoint |-> endpoint, probed |-> probed]

\* the RetrievalConfig of the engines that are built, loaded and queried
DefaultConfig ==
    [base_url |-> NoBaseUrl, chunk_size |-> MaxChunkSize, chunk_overlap |-> MaxChunkSize - 1,
     top_k_retrieval |-> top_k_retrieval, max_workers |-> MaxWorkers]

\* the RetrievalConfig objects a caller may construct: a dataclass, whose
\* fields take any value
Configs ==
    [base_url : BaseUrls, chunk_size : 1..MaxChunkSize, chunk_overlap : 0..MaxChunkSize,
     top_k_retrieval : 0..MaxK, max_workers : 0..MaxWorkers]

Methods == {"hybrid", "faiss", "bm25", "bogus"}

Queries == {<<1>>, <<2, 0, 1>>}

\* the chunk texts of the retrieval-only specification
ChunkTexts == {<<1>>, <<2, 0, 1>>}

----------------------------------------------------------------------------
(* Text helpers *)

\* str.strip() leaves something: some character is not a blank
strip_nonempty(text) == \E i \in 1..Len(text) : text[i] # 0

RECURSIVE SplitFrom(_, _, _)
SplitFrom(text, i, word) ==
    IF i > Len(text)
    THEN IF word = <<>> THEN <<>> ELSE <<word>>
    ELSE IF text[i] = 0
         THEN IF word = <<>>
              THEN SplitFrom(text, i + 1, <<>>)
              ELSE <<word>> \o SplitFrom(text, i + 1, <<>>)
         ELSE SplitFrom(text, i + 1, Append(word, text[i]))

\* str.split(): the maximal runs of non-blank characters
split(text) == SplitFrom(text, 1, <<>>)

\* hashlib.md5(text.encode()).hexdigest(): a digest that determines the text
md5(text) == <<"md5", Len(text), text>>

\* the first n elements of s (s[:n] for n >= 0)
Take(s, n) == SubSeq(s, 1, IF n < Len(s) THEN n ELSE Len(s))

\* the last n elements of s (s[-n:] for n > 0)
LastN(s, n) == SubSeq(s, (IF n < Len(s) THEN Len(s) - n ELSE 0) + 1, Len(s))

\* s[::-1]
Reverse(s) == [i \in 1..Len(s) |-> s[Len(s) + 1 - i]]

\* the indices of `keys` in ascending key order, equal keys in index order
StableAscending(keys) ==
    LET n == Len(keys)
        rank(i) == Cardinality({j \in 1..n :
                        keys[j] < keys[i] \/ (keys[j] = keys[i] /\ j < i)}) + 1
    IN  [r \in 1..n |-> CHOOSE i \in 1..n : rank(i) = r]

----------------------------------------------------------------------------
(* Documents, folders and chunking *)

Document(text, fname, idx) ==
    [page_content |-> text, filename |-> fname, chunk_index |-> idx]

\* text_splitter.split_text(text) of each PDF the model offers
split_text(fname) ==
    CASE fname = "a.pdf" -> << <<1>>, <<0>>, <<2, 0, 1>> >>
      [] fname = "b.pdf" -> << <<1>> >>
      [] OTHER           -> << >>

RECURSIVE ChunkDocs(_, _, _)
ChunkDocs(fname, chunks, i) ==
    IF i > Len(chunks) THEN <<>>
    ELSE (IF strip_nonempty(chunks[i])
          THEN <<Document(chunks[i], fname, i - 1)>>
          ELSE <<>>) \o ChunkDocs(fname, chunks, i + 1)

\* process_single_pdf without the `if chunk.strip()` test
process_single_pdf_unfiltered(fname) ==
    [i \in 1..Len(split_text(fname)) |-> Document(split_text(fname)[i], fname, i - 1)]

process_single_pdf(fname) == ChunkDocs(fname, split_text(fname), 1)

\* the orders in which the futures of `files` may complete
CompletionOrders(files) ==
    {o \in [1..Cardinality(files) -> files] :
        \A i, j \in 1..Cardinality(files) : i # j => o[i] # o[j]}

RECURSIVE ExtendAll(_, _)
ExtendAll(order, i) ==
    IF i > Len(order) THEN <<>>
    ELSE process_single_pdf(order[i]) \o ExtendAll(order, i + 1)

load_and_chunk_documents(order) == ExtendAll(order, 1)

NoFolder == [exists |-> FALSE, files |-> {}]
Folder(files) == [exists |-> TRUE, files |-> files]

Folders == {NoFolder, Folder({}), Folder({"a.pdf"}), Folder({"b.pdf"}), Folder({"c.pdf"})}

\* _validate_pdf_folder returns normally
validate_pdf_folder(folder) == folder.exists /\ folder.files # {}

----------------------------------------------------------------------------
(* The two indices *)

None == [present |-> FALSE, docs |-> <<>>, emb |-> <<>>]

\* FAISS.from_documents(documents, embeddings), emb[i] the embedding of documents[i]
FAISS_from_documents(docs, emb) == [present |-> TRUE, docs |-> docs, emb |-> emb]

\* BM25Okapi([doc.page_content.split() for doc in documents])
BM25Okapi(docs) ==
    [present |-> TRUE, docs |-> [i \in 1..Len(docs) |-> split(docs[i].page_content)],
     emb |-> <<>>]

\* the vectors the embedding provider may return for docs, one number per chunk
Embeddings(docs, top) == [1..Len(docs) -> 0..top]

\* embeddings.embed_query(query)
embed_query(query) == 0

\* vector_store.similarity_search_with_score(query, k): the k nearest stored
\* documents with their distances, nearest first
similarity_search_with_score(vs, query, k) ==
    LET qe == embed_query(query)
        dist == [i \in 1..Len(vs.docs) |-> (vs.emb[i] - qe) * (vs.emb[i] - qe)]
        near == Take(StableAscending(dist), k)
    IN  [r \in 1..Len(near) |-> [doc |-> vs.docs[near[r]], score |-> dist[near[r]]]]

\* bm25.get_scores(tokenized_query): one score per indexed chunk, the number of
\* occurrences of the query's tokens among the chunk's tokens
get_scores(index, tokenized_query) ==
    [i \in 1..Len(index.docs) |->
        Cardinality({<<a, b>> \in (1..Len(tokenized_query)) \X (1..Len(index.docs[i])) :
                        tokenized_query[a] = index.docs[i][b]})]

\* top_indices keeping the k lowest scores
top_indices_lowest(scores, k) == Reverse(Take(StableAscending(scores), k))

\* np.argsort(scores)[-k:][::-1]; on arrays this short argsort sorts by
\* insertion, which leaves equal scores in corpus order
top_indices(scores, k) == Reverse(LastN(StableAscending(scores), k))

----------------------------------------------------------------------------
(* The three retrieval methods.  Each yields [ok, docs, scores]; ok is FALSE *)
(* when an index into self.documents is out of range (IndexError).          *)

Retrieved(docs, scores) == [ok |-> TRUE, docs |-> docs, scores |-> scores]
IndexError == [ok |-> FALSE, docs |-> <<>>, scores |-> <<>>]

\* the loop over faiss_docs of _hybrid_retrieval, from position i on
RECURSIVE AddFaiss(_, _, _)
AddFaiss(faiss_docs, i, acc) ==
    IF i > Len(faiss_docs) THEN acc
    ELSE LET content_hash == md5(faiss_docs[i].doc.page_content)
         IN  IF content_hash \notin acc.seen
             THEN AddFaiss(faiss_docs, i + 1,
                      [docs |-> Append(acc.docs, faiss_docs[i].doc),
                       scores |-> Append(acc.scores, faiss_docs[i].score),
                       seen |-> acc.seen \cup {content_hash}, ok |-> TRUE])
             ELSE AddFaiss(faiss_docs, i + 1, acc)

\* AddBm25 without the seen_content test
RECURSIVE AddBm25_NoDedup(_, _, _, _, _, _)
AddBm25_NoDedup(top, i, acc, docs, bm25_scores, k) ==
    IF i > Len(top) \/ Len(acc.docs) >= k THEN acc
    ELSE IF top[i] > Len(docs) THEN [acc EXCEPT !.ok = FALSE]
    ELSE AddBm25_NoDedup(top, i + 1,
             [docs |-> Append(acc.docs, docs[top[i]]),
              scores |-> Append(acc.scores, bm25_scores[top[i]]),
              seen |-> acc.seen, ok |-> TRUE],
             docs, bm25_scores, k)

\* the loop over top_bm25_indices of _hybrid_retrieval, from position i on
RECURSIVE AddBm25(_, _, _, _, _, _)
AddBm25(top, i, acc, docs, bm25_scores, k) ==
    IF i > Len(top) \/ Len(acc.docs) >= k THEN acc
    ELSE IF top[i] > Len(docs) THEN [acc EXCEPT !.ok = FALSE]
    ELSE LET doc == docs[top[i]]
             content_hash == md5(doc.page_content)
         IN  IF content_hash \notin acc.seen
             THEN AddBm25(top, i + 1,
                      [docs |-> Append(acc.docs, doc),
                       scores |-> Append(acc.scores, bm25_scores[top[i]]),
                       seen |-> acc.seen \cup {content_hash}, ok |-> TRUE],
                      docs, bm25_scores, k)
             ELSE AddBm25(top, i + 1, acc, docs, bm25_scores, k)

\* _hybrid_retrieval walking the lexical candidates before the semantic ones
hybrid_retrieval_lexical_first(vs, index, docs, query, k, return_scores) ==
    LET faiss_docs == similarity_search_with_score(vs, query, k)
        bm25_scores == get_scores(index, split(query))
        top_bm25_indices == top_indices(bm25_scores, k)
        start == [docs |-> <<>>, scores |-> <<>>, seen |-> {}, ok |-> TRUE]
        merged == AddFaiss(faiss_docs, 1,
                           AddBm25(top_bm25_indices, 1, start, docs, bm25_scores, k))
    IN  IF merged.ok
        THEN Retrieved(Take(merged.docs, k),
                       IF return_scores THEN Take(merged.scores, k) ELSE <<>>)
        ELSE IndexError

\* _hybrid_retrieval
hybrid_retrieval(vs, index, docs, query, k, return_scores) ==
    LET faiss_docs == similarity_search_with_score(vs, query, k)
        bm25_scores == get_scores(index, split(query))
        top_bm25_indices == top_indices(bm25_scores, k)
        start == [docs |-> <<>>, scores |-> <<>>, seen |-> {}, ok |-> TRUE]
        merged == AddBm25(top_bm25_indices, 1, AddFaiss(faiss_docs, 1, start),
                          docs, bm25_scores, k)
    IN  IF merged.ok
        THEN Retrieved(Take(merged.docs, k),
                       IF return_scores THEN Take(merged.scores, k) ELSE <<>>)
        ELSE IndexError

faiss_retrieval(vs, query, k, return_scores) ==
    LET results == similarity_search_with_score(vs, query, k)
    IN  Retrieved([i \in 1..Len(results) |-> results[i].doc],
                  IF return_scores
                  THEN [i \in 1..Len(results) |-> results[i].score] ELSE <<>>)

\* _bm25_retrieval returning scores[:k] in place of the scores at top_indices
bm25_retrieval_corpus_order_scores(index, docs, query, k, return_scores) ==
    LET scores == get_scores(index, split(query))
        top == top_indices(scores, k)
    IN  IF \E i \in 1..Len(top) : top[i] > Len(docs)
        THEN IndexError
        ELSE Retrieved([i \in 1..Len(top) |-> docs[top[i]]],
                       IF return_scores
                       THEN [i \in 1..Len(top) |-> scores[i]] ELSE <<>>)

bm25_retrieval(index, docs, query, k, return_scores) ==
    LET scores == get_scores(index, split(query))
        top == top_indices(scores, k)
    IN  IF \E i \in 1..Len(top) : top[i] > Len(docs)
        THEN IndexError
        ELSE Retrieved([i \in 1..Len(top) |-> docs[top[i]]],
                       IF return_scores
                       THEN [i \in 1..Len(top) |-> scores[top[i]]] ELSE <<>>)

----------------------------------------------------------------------------
(* The query cache: None, or a dict from query hash to [result, timestamp] *)

NoCache == [is_none |-> TRUE, dict |-> <<>>]
EmptyDict == [is_none |-> FALSE, dict |-> <<>>]

\* bool(self.query_cache): None and the empty dict are both false
cache_truthy(cache) == ~cache.is_none /\ DOMAIN cache.dict # {}

cache_store(cache, key, entry) ==
    [cache EXCEPT !.dict = [h \in DOMAIN cache.dict \cup {key} |->
                                IF h = key THEN entry ELSE cache.dict[h]]]

NoResult == [documents |-> <<>>, scores |-> <<>>, method_used |-> "",
             query_hash |-> <<>>, total_candidates |-> 0]

RetrievalResult(docs, scores, method, query_hash, total) ==
    [documents |-> docs, scores |-> scores, method_used |-> method,
     query_hash |-> query_hash, total_candidates |-> total]

\* what a call leaves in `last`
Call(op, status) ==
    [op |-> op, status |-> status, query |-> <<>>, args |-> <<>>,
     result |-> NoResult, scored |-> FALSE, at |-> now]

\* a thread calling retrieve_documents: where it is in the call, how its last
\* call ended, and what it read from the engine's attributes in this call
IdleReader == [pc |-> "idle", status |-> "none", query |-> <<>>, k |-> 0,
               vector_store |-> None, bm25 |-> None, documents |-> <<>>,
               found |-> IndexError, result |-> NoResult]

\* a thread calling build_retrieval_system or load_retrieval_system
IdleWriter == [pc |-> "idle"]

\* no call is in progress on any thread
\* the ThreadPoolExecutor of a build: the folder being chunked, the tasks
\* submitted and not started, the tasks a worker thread is running, the
\* futures that are done, the files whose result the building thread has
\* taken from as_completed (in that order), and all_documents
IdlePool == [pc |-> "idle", folder |-> NoFolder, queue |-> {}, running |-> {},
             done |-> {}, collected |-> <<>>, all_documents |-> <<>>]

NoThreads == [reader |-> IdleReader, reader2 |-> IdleReader, writer |-> IdleWriter,
              pool |-> IdlePool]

----------------------------------------------------------------------------
(* Persisted artifacts *)

Absent == [state |-> "absent", store |-> None, bm25 |-> None, documents |-> <<>>]
Corrupt == [state |-> "corrupt", store |-> None, bm25 |-> None, documents |-> <<>>]

\* save_local attaching the stored documents to the vectors in reverse order
FaissArtifact_reordered(vs) ==
    [state |-> "ok", store |-> [vs EXCEPT !.docs = Reverse(vs.docs)], bm25 |-> None,
     documents |-> <<>>]

\* what vector_store.save_local leaves at faiss_index_path
FaissArtifact(vs) == [state |-> "ok", store |-> vs, bm25 |-> None, documents |-> <<>>]

\* what pickle.dump({"bm25", "documents", "config"}) leaves at bm25_data_path
Bm25Artifact(index, docs) ==
    [state |-> "ok", store |-> None, bm25 |-> index, documents |-> docs]

\* the points at which a build can be made to fail from outside:
\*   "embed"        the embedding call inside FAISS.from_documents raises
\*   "save_faiss"   save_local raises before it writes anything
\*   "write_faiss"  save_local raises part-way through writing
\*   "open_pickle"  open(bm25_data_path, "wb") raises
\*   "dump_pickle"  pickle.dump raises after the file was opened (truncated)
BuildFaults == {"none", "embed", "save_faiss", "write_faiss", "open_pickle", "dump_pickle"}

\* the points at which a load can be made to fail from outside (read errors)
LoadFaults == {"none", "read_faiss", "read_pickle"}

\* the storage paths do not hold the artifacts of one build that returned
NoPersisted == [valid |-> FALSE, documents |-> <<>>, vector_store |-> None, bm25 |-> None]

\* the index set of an engine whose build has just saved it and returned
Persisted(docs, vs, index) ==
    [valid |-> TRUE, documents |-> docs, vector_store |-> vs, bm25 |-> index]

\* a response of the HTTP server: the endpoint answered, the status code and
\* what the detail names
NoResponse == [op |-> "none", code |-> 0, detail |-> ""]
Response(op, code, detail) == [op |-> op, code |-> code, detail |-> detail]

\* the server: whether the process is up and where its control is (pc),
\* API_BASE_URL, the globals retriever (is it not None), processing_status
\* and system_logs (the ids of the entries), the file persistent_logs.json,
\* the directories under uploads/, the background tasks added and not yet
\* run, the task being run, the upload the global retriever's indices were
\* built from, and the response to the request the last step handled
NoServer ==
    [pc |-> "down", api_base_url |-> NoBaseUrl, retriever |-> FALSE,
     processing_status |-> "idle", system_logs |-> <<>>, logs_file |-> <<>>,
     uploads |-> <<>>, background |-> <<>>, task |-> 0, built_from |-> 0,
     response |-> NoResponse]

----------------------------------------------------------------------------
(* Initial state: TradingKnowledgeRetriever.__init__ on a clean disk *)

Init ==
    /\ documents = <<>>
    /\ vector_store = None
    /\ bm25 = None
    /\ \E enable_caching \in BOOLEAN :
          query_cache = IF enable_caching THEN EmptyDict ELSE NoCache
    /\ faiss_file = Absent
    /\ bm25_file = Absent
    /\ now = 0
    /\ last = [op |-> "init", status |-> "ok", query |-> <<>>, args |-> <<>>,
               result |-> NoResult, scored |-> FALSE, at |-> 0]
    /\ succeeded = FALSE
    /\ persisted = NoPersisted
    /\ config = DefaultConfig
    /\ embeddings = Client(DefaultEndpoint, TRUE)
    /\ server = NoServer
    /\ threads = NoThreads

\* a new TradingKnowledgeRetriever(config) over the same storage paths
\* what the trial embed_query("test") of construction ends with: an
\* embedding, an empty result, an error whose message holds "403" or
\* "Forbidden", or any other error
TrialOutcomes == {"ok", "empty", "forbidden", "error"}

\* _initialize_embeddings: the client left in self.embeddings, or the error
\* raised; fallbacks counts the constructions of the fallback client
initialize_embeddings(cfg, api_key, trial) ==
    LET endpoint == IF cfg.base_url # NoBaseUrl THEN cfg.base_url ELSE DefaultEndpoint
    IN  IF ~api_key
        THEN [status |-> "NoApiKey", client |-> None, fallbacks |-> 0]
        ELSE IF trial = "ok"
        THEN [status |-> "ok", client |-> Client(endpoint, TRUE), fallbacks |-> 0]
        ELSE IF trial = "forbidden"
        THEN [status |-> "ok", client |-> Client(DefaultEndpoint, FALSE), fallbacks |-> 1]
        ELSE [status |-> "EmbeddingError", client |-> None, fallbacks |-> 0]

\* a new TradingKnowledgeRetriever(config) over the same storage paths, with
\* OPENAI_API_KEY set or not and the trial call ending as given; when
\* _initialize_embeddings raises, the caller gets no new engine
new_engine(cfg, enable_caching, api_key, trial) ==
    \E init \in {initialize_embeddings(cfg, api_key, trial)} :
        /\ last' = [Call("init", init.status) EXCEPT
                        !.args = <<cfg.base_url, trial, init.fallbacks>>]
        /\ IF init.status = "ok"
           THEN /\ config' = cfg
                /\ embeddings' = init.client
                /\ documents' = <<>>
                /\ vector_store' = None
                /\ bm25' = None
                /\ query_cache' = IF enable_caching THEN EmptyDict ELSE NoCache
                /\ succeeded' = FALSE
           ELSE UNCHANGED <<config, embeddings, documents, vector_store, bm25,
                            query_cache, succeeded>>
        /\ UNCHANGED <<faiss_file, bm25_file, now, persisted, threads>>

\* time passes
Tick ==
    /\ now < MaxNow
    /\ now' = now + 1
    /\ UNCHANGED <<documents, vector_store, bm25, query_cache, faiss_file, bm25_file, last,
                   succeeded, persisted, config, embeddings, server, threads>>

----------------------------------------------------------------------------
(* build_retrieval_system, with _build_faiss_index, _build_bm25_index and   *)
(* _save_indices                                                            *)

\* the status a build ends with
build_status(folder, docs, fault) ==
    IF ~folder.exists THEN "FileNotFoundError"
    ELSE IF folder.files = {} THEN "NoPdfFiles"
    ELSE IF docs = <<>> THEN "NoDocuments"
    ELSE IF fault = "embed" THEN "FaissBuildError"
    ELSE IF fault # "none" THEN "SaveError"
    ELSE "ok"

\* build_assigns_documents without the `if not documents: raise`
build_assigns_documents_unchecked(folder, docs) == validate_pdf_folder(folder)

\* the build got as far as `self.documents = documents`
build_assigns_documents(folder, docs) == validate_pdf_folder(folder) /\ docs # <<>>

\* the build got as far as having both indices in memory
build_assigns_indices(folder, docs, fault) ==
    build_assigns_documents(folder, docs) /\ fault # "embed"

\* build_retrieval_system once _load_and_chunk_documents has returned docs
\* (or _validate_pdf_folder has raised)
build_from(folder, docs, emb, fault) ==
      \E status \in {build_status(folder, docs, fault)},
         indexed \in {build_assigns_indices(folder, docs, fault)},
         new_store \in {FAISS_from_documents(docs, emb)},
         new_bm25 \in {BM25Okapi(docs)} :
        /\ documents' = IF build_assigns_documents(folder, docs) THEN docs ELSE documents
        /\ vector_store' = IF indexed THEN new_store ELSE vector_store
        /\ bm25' = IF indexed THEN new_bm25 ELSE bm25
        /\ faiss_file' =
              IF ~indexed \/ fault = "save_faiss" THEN faiss_file
              ELSE IF fault = "write_faiss" THEN Corrupt
              ELSE FaissArtifact(new_store)
        /\ bm25_file' =
              IF ~indexed \/ fault \in {"save_faiss", "write_faiss", "open_pickle"}
              THEN bm25_file
              ELSE IF fault = "dump_pickle" THEN Corrupt
              ELSE Bm25Artifact(new_bm25, docs)
        /\ last' = Call("build", status)
        /\ succeeded' = (succeeded \/ status = "ok")
        /\ persisted' =
              IF status = "ok"
              THEN Persisted(docs, new_store, new_bm25)
              ELSE IF faiss_file' # faiss_file \/ bm25_file' # bm25_file THEN NoPersisted
              ELSE persisted
        /\ UNCHANGED <<query_cache, now, config, embeddings>>

build_retrieval_system(folder, order, emb, fault) ==
    \E docs \in {IF validate_pdf_folder(folder) THEN load_and_chunk_documents(order)
                 ELSE <<>>} :
        /\ build_from(folder, docs, emb, fault)
        /\ UNCHANGED threads

Build ==
    \E folder \in Folders, fault \in BuildFaults :
      \E order \in CompletionOrders(folder.files) :
        \E emb \in Embeddings(load_and_chunk_documents(order), LifeEmb) :
            build_retrieval_system(folder, order, emb, fault) /\ UNCHANGED server

----------------------------------------------------------------------------
(* load_retrieval_system *)

\* FAISS.load_local returned
load_reads_faiss(fault) ==
    /\ faiss_file.state # "absent"
    /\ bm25_file.state # "absent"
    /\ faiss_file.state = "ok"
    /\ fault # "read_faiss"

\* pickle.load returned too
load_reads_pickle(fault) ==
    load_reads_faiss(fault) /\ bm25_file.state = "ok" /\ fault # "read_pickle"

load_retrieval_system(fault) ==
    /\ vector_store' = IF load_reads_faiss(fault) THEN faiss_file.store ELSE vector_store
    /\ bm25' = IF load_reads_pickle(fault) THEN bm25_file.bm25 ELSE bm25
    /\ documents' = IF load_reads_pickle(fault) THEN bm25_file.documents ELSE documents
    /\ last' = Call("load", IF load_reads_pickle(fault) THEN "True" ELSE "False")
    /\ succeeded' = (succeeded \/ load_reads_pickle(fault))
    /\ UNCHANGED <<persisted, config, embeddings>>
    /\ UNCHANGED <<query_cache, faiss_file, bm25_file, now, threads>>

Load == \E fault \in LoadFaults : load_retrieval_system(fault) /\ UNCHANGED server

----------------------------------------------------------------------------
(* retrieve_documents *)

\* the engine passes the check of the first line of retrieve_documents
loaded(vs, index) == vs.present /\ index.present

\* `self.query_cache and query_hash in self.query_cache` and the entry is live
cache_hit(cache, query_hash, t) ==
    /\ cache_truthy(cache)
    /\ query_hash \in DOMAIN cache.dict
    /\ t - cache.dict[query_hash].timestamp < cache_ttl

\* the dispatch on `method`: [ok, docs, scores], or nothing for an unknown method
dispatch(vs, index, docs, query, k, method, return_scores) ==
    IF method = "hybrid" THEN hybrid_retrieval(vs, index, docs, query, k, return_scores)
    ELSE IF method = "faiss" THEN faiss_retrieval(vs, query, k, return_scores)
    ELSE bm25_retrieval(index, docs, query, k, return_scores)

\* `if self.query_cache:` guarding the store of a fresh result
cache_after(cache, query_hash, result, t) ==
    IF cache_truthy(cache)
    THEN cache_store(cache, query_hash, [result |-> result, timestamp |-> t])
    ELSE cache

\* retrieve_documents that keeps in self.documents only the chunks it ranked
retrieve_documents_consuming(query, k_arg, method, return_scores) ==
    /\ documents' = Take(documents, IF k_arg = 0 THEN top_k_retrieval ELSE k_arg)
    /\ last' = [Call("retrieve", "ok") EXCEPT
                   !.query = query, !.args = <<k_arg, method, return_scores>>]
    /\ UNCHANGED <<vector_store, bm25, query_cache, faiss_file, bm25_file, now, succeeded, persisted, config, embeddings,
                   threads>>

retrieve_documents(query, k_arg, method, return_scores) ==
    LET k == IF k_arg = 0 THEN config.top_k_retrieval ELSE k_arg
        query_hash == md5(query)
        call == [Call("retrieve", "ok") EXCEPT
                    !.query = query, !.args = <<k_arg, method, return_scores>>]
    IN  \E found \in {dispatch(vector_store, bm25, documents, query, k, method,
                               return_scores)} :
        LET result == RetrievalResult(found.docs,
                                      IF return_scores THEN found.scores ELSE <<>>,
                                      method, query_hash, Len(documents))
        IN  /\ UNCHANGED <<documents, vector_store, bm25, faiss_file, bm25_file, now,
                           succeeded, persisted, config, embeddings, threads>>
            /\ IF ~loaded(vector_store, bm25)
               THEN /\ last' = [call EXCEPT !.status = "NotLoaded"]
                    /\ UNCHANGED query_cache
               ELSE IF cache_hit(query_cache, query_hash, now)
               THEN /\ last' = [call EXCEPT !.result = query_cache.dict[query_hash].result]
                    /\ UNCHANGED query_cache
               ELSE IF method \notin {"hybrid", "faiss", "bm25"}
               THEN /\ last' = [call EXCEPT !.status = "UnknownMethod"]
                    /\ UNCHANGED query_cache
               ELSE IF ~found.ok
               THEN /\ last' = [call EXCEPT !.status = "IndexError", !.scored = TRUE]
                    /\ UNCHANGED query_cache
               ELSE /\ last' = [call EXCEPT !.result = result, !.scored = TRUE]
                    /\ query_cache' = cache_after(query_cache, query_hash, result, now)

\* get_system_stats: what it returns for the engine as it stands (the
\* configuration and the text statistics left out)
get_system_stats ==
    IF documents = <<>>
    THEN [status |-> "not_loaded", total_documents |-> 0, cache_size |-> 0]
    ELSE [status |-> "loaded", total_documents |-> Len(documents),
          cache_size |-> IF cache_truthy(query_cache)
                         THEN Cardinality(DOMAIN query_cache.dict) ELSE 0]

Retrieve ==
    \E query \in Queries, k_arg \in 0..MaxK, method \in Methods, return_scores \in BOOLEAN :
        retrieve_documents(query, k_arg, method, return_scores) /\ UNCHANGED server

----------------------------------------------------------------------------
(* Life cycle: one engine at a time over one pair of storage paths, used by *)
(* one caller at a time                                                     *)

LifeRetrieve ==
    \E query \in Queries, k_arg \in 0..LifeK, method \in Methods :
        retrieve_documents(query, k_arg, method, FALSE) /\ UNCHANGED server

NewEngine == \E enable_caching \in BOOLEAN : new_engine(config, enable_caching, TRUE, "ok") /\ UNCHANGED server

Next ==
    \/ Build
    \/ Load
    \/ LifeRetrieve
    \/ NewEngine

Spec == Init /\ [][Next]_vars

----------------------------------------------------------------------------
(* Queries over time: a new engine, built without faults, then queried while *)
(* the clock advances                                                        *)

CacheBuild ==
    \E files \in {{"a.pdf"}, {"b.pdf"}} :
      \E order \in CompletionOrders(files) :
        \E emb \in Embeddings(load_and_chunk_documents(order), LifeEmb) :
            build_retrieval_system(Folder(files), order, emb, "none") /\ UNCHANGED server

NextCache ==
    \/ CacheBuild
    \/ Retrieve
    \/ Tick

SpecCache == Init /\ [][NextCache]_vars

----------------------------------------------------------------------------
(* Hybrid retrieval only: an engine that a fault-free build has just loaded *)
(* with any corpus of at most MaxDocs chunks and any embeddings, then       *)
(* queried with the hybrid method                                           *)

Corpora ==
    UNION {[1..n -> ChunkTexts] : n \in 1..MaxDocs}

CorpusDocs(texts) == [i \in 1..Len(texts) |-> Document(texts[i], "f.pdf", i - 1)]

InitLoaded ==
    \E texts \in Corpora :
      \E emb \in Embeddings(texts, MaxEmb) :
        LET docs == CorpusDocs(texts)
        IN  /\ documents = docs
            /\ vector_store = FAISS_from_documents(docs, emb)
            /\ bm25 = BM25Okapi(docs)
            /\ query_cache = EmptyDict
            /\ faiss_file = FaissArtifact(FAISS_from_documents(docs, emb))
            /\ bm25_file = Bm25Artifact(BM25Okapi(docs), docs)
            /\ now = 0
            /\ last = [op |-> "build", status |-> "ok", query |-> <<>>, args |-> <<>>,
                       result |-> NoResult, scored |-> FALSE, at |-> 0]
            /\ succeeded = TRUE
            /\ persisted = Persisted(docs, FAISS_from_documents(docs, emb), BM25Okapi(docs))
            /\ config = DefaultConfig
            /\ embeddings = Client(DefaultEndpoint, TRUE)
            /\ server = NoServer
            /\ threads = NoThreads

HybridRetrieve ==
    \E query \in Queries, k_arg \in 0..MaxK, return_scores \in BOOLEAN :
        retrieve_documents(query, k_arg, "hybrid", return_scores) /\ UNCHANGED server

NextHybrid == HybridRetrieve

SpecHybrid == InitLoaded /\ [][NextHybrid]_vars

----------------------------------------------------------------------------
(* Lexical retrieval only: the same engines as in SpecHybrid, queried with *)
(* the bm25 method; one of the queries shares no token with one of the     *)
(* chunk texts                                                             *)

LexicalQueries == Queries \cup {<<2>>}

LexicalRetrieve ==
    \E query \in LexicalQueries, k_arg \in 0..MaxK, return_scores \in BOOLEAN :
        retrieve_documents(query, k_arg, "bm25", return_scores) /\ UNCHANGED server

NextLexical == LexicalRetrieve

SpecLexical == InitLoaded /\ [][NextLexical]_vars

----------------------------------------------------------------------------
(* Two threads on one engine: a writer that calls build_retrieval_system   *)
(* and load_retrieval_system and a reader that calls retrieve_documents    *)
(* with the hybrid method.  Neither method takes a lock, so a call is a    *)
(* sequence of steps, one per read or write of an attribute of the engine, *)
(* and the steps of the two threads interleave.  The writer's builds fail  *)
(* at no point but the save, so every call of the writer, run alone, takes *)
(* the engine from one complete index set to another.                      *)

ConcFolders == {Folder({"a.pdf"}), Folder({"b.pdf"})}

ReaderAt(t, pc) == threads[t].pc = pc
WriterAt(pc) == threads.writer.pc = pc

\* build_retrieval_system up to `self.documents = documents`
build_assign_documents ==
    /\ WriterAt("idle")
    /\ \E folder \in ConcFolders :
         \E order \in CompletionOrders(folder.files) :
            /\ build_assigns_documents(folder, load_and_chunk_documents(order))
            /\ documents' = load_and_chunk_documents(order)
    /\ threads' = [threads EXCEPT !.writer.pc = "build_faiss"]
    /\ UNCHANGED <<vector_store, bm25, query_cache, faiss_file, bm25_file, now, last,
                   succeeded, persisted, config, embeddings, server>>

\* _build_faiss_index: `self.vector_store = FAISS.from_documents(self.documents, ...)`
build_faiss_index ==
    /\ WriterAt("build_faiss")
    /\ \E emb \in Embeddings(documents, LifeEmb) :
          vector_store' = FAISS_from_documents(documents, emb)
    /\ threads' = [threads EXCEPT !.writer.pc = "build_bm25"]
    /\ UNCHANGED <<documents, bm25, query_cache, faiss_file, bm25_file, now, last,
                   succeeded, persisted, config, embeddings, server>>

\* _build_bm25_index: `self.bm25 = BM25Okapi(tokenized_corpus)`
build_bm25_index ==
    /\ WriterAt("build_bm25")
    /\ bm25' = BM25Okapi(documents)
    /\ threads' = [threads EXCEPT !.writer.pc = "save"]
    /\ UNCHANGED <<documents, vector_store, query_cache, faiss_file, bm25_file, now, last,
                   succeeded, persisted, config, embeddings, server>>

\* _save_indices and the return of build_retrieval_system; save_local may
\* raise before it writes anything
save_indices ==
    /\ WriterAt("save")
    /\ \E fault \in {"none", "save_faiss"} :
          /\ faiss_file' = IF fault = "none" THEN FaissArtifact(vector_store) ELSE faiss_file
          /\ bm25_file' = IF fault = "none" THEN Bm25Artifact(bm25, documents) ELSE bm25_file
          /\ last' = Call("build", IF fault = "none" THEN "ok" ELSE "SaveError")
          /\ succeeded' = (succeeded \/ fault = "none")
          /\ persisted' = IF fault = "none" THEN Persisted(documents, vector_store, bm25)
                          ELSE persisted
    /\ threads' = [threads EXCEPT !.writer.pc = "idle"]
    /\ UNCHANGED <<documents, vector_store, bm25, query_cache, now, config, embeddings, server>>

\* load_retrieval_system returns False: an artifact is missing
load_missing ==
    /\ WriterAt("idle")
    /\ ~load_reads_faiss("none")
    /\ last' = Call("load", "False")
    /\ UNCHANGED <<documents, vector_store, bm25, query_cache, faiss_file, bm25_file, now,
                   succeeded, persisted, config, embeddings, server, threads>>

\* load_retrieval_system up to `self.vector_store = FAISS.load_local(...)`
load_faiss ==
    /\ WriterAt("idle")
    /\ load_reads_faiss("none")
    /\ vector_store' = faiss_file.store
    /\ threads' = [threads EXCEPT !.writer.pc = "load_bm25"]
    /\ UNCHANGED <<documents, bm25, query_cache, faiss_file, bm25_file, now, last,
                   succeeded, persisted, config, embeddings, server>>

\* `self.bm25 = data["bm25"]`
load_bm25 ==
    /\ WriterAt("load_bm25")
    /\ load_reads_pickle("none")
    /\ bm25' = bm25_file.bm25
    /\ threads' = [threads EXCEPT !.writer.pc = "load_documents"]
    /\ UNCHANGED <<documents, vector_store, query_cache, faiss_file, bm25_file, now, last,
                   succeeded, persisted, config, embeddings, server>>

\* `self.documents = data["documents"]` and the return of load_retrieval_system
load_documents ==
    /\ WriterAt("load_documents")
    /\ documents' = bm25_file.documents
    /\ last' = Call("load", "True")
    /\ succeeded' = TRUE
    /\ UNCHANGED <<persisted, config, embeddings, server>>
    /\ threads' = [threads EXCEPT !.writer.pc = "idle"]
    /\ UNCHANGED <<vector_store, bm25, query_cache, faiss_file, bm25_file, now>>

\* what a retrieve_documents call of the reader leaves in `last`
ReaderCall(t, status) ==
    [Call("retrieve", status) EXCEPT
        !.query = threads[t].query, !.args = <<threads[t].k, "hybrid", FALSE>>]

\* retrieve_documents up to the dispatch: the loaded check and the cache check
retrieve_check(t) ==
    /\ ReaderAt(t, "idle")
    /\ \E query \in Queries, k \in 1..LifeK :
          LET call == [Call("retrieve", "ok") EXCEPT
                          !.query = query, !.args = <<k, "hybrid", FALSE>>]
              begun == [IdleReader EXCEPT !.query = query, !.k = k]
          IN  IF ~loaded(vector_store, bm25)
              THEN /\ threads' = [threads EXCEPT ![t] = [begun EXCEPT !.status = "NotLoaded"]]
                   /\ last' = [call EXCEPT !.status = "NotLoaded"]
              ELSE IF cache_hit(query_cache, md5(query), now)
              THEN /\ threads' = [threads EXCEPT ![t] =
                                      [begun EXCEPT
                                          !.status = "cached",
                                          !.result = query_cache.dict[md5(query)].result]]
                   /\ last' = [call EXCEPT !.result = query_cache.dict[md5(query)].result]
              ELSE /\ threads' = [threads EXCEPT ![t] = [begun EXCEPT !.pc = "search"]]
                   /\ UNCHANGED last
    /\ UNCHANGED <<documents, vector_store, bm25, query_cache, faiss_file, bm25_file, now,
                   succeeded, persisted, config, embeddings, server>>

\* _hybrid_retrieval: `self.vector_store.similarity_search_with_score(query, k=k)`
retrieve_search(t) ==
    /\ ReaderAt(t, "search")
    /\ threads' = [threads EXCEPT ![t].pc = "scores",
                                  ![t].vector_store = vector_store]
    /\ UNCHANGED <<documents, vector_store, bm25, query_cache, faiss_file, bm25_file, now,
                   last, succeeded, persisted, config, embeddings, server>>

\* _hybrid_retrieval: `self.bm25.get_scores(tokenized_query)`
retrieve_scores(t) ==
    /\ ReaderAt(t, "scores")
    /\ threads' = [threads EXCEPT ![t].pc = "merge", ![t].bm25 = bm25]
    /\ UNCHANGED <<documents, vector_store, bm25, query_cache, faiss_file, bm25_file, now,
                   last, succeeded, persisted, config, embeddings, server>>

\* _hybrid_retrieval: the two loops, the second of which reads self.documents
retrieve_merge(t) ==
    /\ ReaderAt(t, "merge")
    /\ \E found \in {hybrid_retrieval(threads[t].vector_store, threads[t].bm25,
                                      documents, threads[t].query, threads[t].k,
                                      FALSE)} :
          /\ threads' = [threads EXCEPT
                            ![t].pc = IF found.ok THEN "result" ELSE "idle",
                            ![t].status = IF found.ok THEN "merged" ELSE "IndexError",
                            ![t].documents = documents,
                            ![t].found = found]
          /\ last' = IF found.ok THEN last ELSE ReaderCall(t, "IndexError")
    /\ UNCHANGED <<documents, vector_store, bm25, query_cache, faiss_file, bm25_file, now,
                   succeeded, persisted, config, embeddings, server>>

\* retrieve_documents from the RetrievalResult on
retrieve_result(t) ==
    /\ ReaderAt(t, "result")
    /\ LET query_hash == md5(threads[t].query)
           result == RetrievalResult(threads[t].found.docs, <<>>, "hybrid", query_hash,
                                     Len(documents))
       IN  /\ query_cache' = cache_after(query_cache, query_hash, result, now)
           /\ last' = [ReaderCall(t, "ok") EXCEPT !.result = result, !.scored = TRUE]
    /\ threads' = [threads EXCEPT
                      ![t].pc = "idle", ![t].status = "ok",
                      ![t].result = RetrievalResult(threads[t].found.docs, <<>>, "hybrid",
                                                    md5(threads[t].query), Len(documents))]
    /\ UNCHANGED <<documents, vector_store, bm25, faiss_file, bm25_file, now, succeeded, persisted, config, embeddings, server>>

NextConc ==
    \/ build_assign_documents
    \/ build_faiss_index
    \/ build_bm25_index
    \/ save_indices
    \/ load_missing
    \/ load_faiss
    \/ load_bm25
    \/ load_documents
    \/ retrieve_check("reader")
    \/ retrieve_search("reader")
    \/ retrieve_scores("reader")
    \/ retrieve_merge("reader")
    \/ retrieve_result("reader")

SpecConc == Init /\ [][NextConc]_vars

----------------------------------------------------------------------------
(* Two threads that call retrieve_documents with the hybrid method on one  *)
(* engine that a fault-free build has loaded, with caching enabled or not  *)

InitBuilt ==
    \E folder \in ConcFolders, enable_caching \in BOOLEAN :
      \E order \in CompletionOrders(folder.files) :
        \E emb \in Embeddings(load_and_chunk_documents(order), LifeEmb) :
          LET docs == load_and_chunk_documents(order)
          IN  /\ documents = docs
              /\ vector_store = FAISS_from_documents(docs, emb)
              /\ bm25 = BM25Okapi(docs)
              /\ query_cache = IF enable_caching THEN EmptyDict ELSE NoCache
              /\ faiss_file = FaissArtifact(FAISS_from_documents(docs, emb))
              /\ bm25_file = Bm25Artifact(BM25Okapi(docs), docs)
              /\ now = 0
              /\ last = [op |-> "build", status |-> "ok", query |-> <<>>, args |-> <<>>,
                         result |-> NoResult, scored |-> FALSE, at |-> 0]
              /\ succeeded = TRUE
              /\ persisted = Persisted(docs, FAISS_from_documents(docs, emb), BM25Okapi(docs))
              /\ config = DefaultConfig
              /\ embeddings = Client(DefaultEndpoint, TRUE)
              /\ server = NoServer
              /\ threads = NoThreads

Readers == {"reader", "reader2"}

NextQueries ==
    \E t \in Readers :
        \/ retrieve_check(t)
        \/ retrieve_search(t)
        \/ retrieve_scores(t)
        \/ retrieve_merge(t)
        \/ retrieve_result(t)

SpecQueries == InitBuilt /\ [][NextQueries]_vars

----------------------------------------------------------------------------
(* A loaded engine queried with each of the three methods *)

\* a query of two tokens
ScoredQuery == <<2, 0, 1>>

ScoredRetrieve ==
    \E k_arg \in 1..MaxK, return_scores \in BOOLEAN :
      \E method \in {"hybrid", "faiss", "bm25"} :
        retrieve_documents(ScoredQuery, k_arg, method, return_scores) /\ UNCHANGED server

NextScores == ScoredRetrieve

SpecScores == InitLoaded /\ [][NextScores]_vars

----------------------------------------------------------------------------
(* The worker pool of a build: _load_and_chunk_documents step by step *)

\* folders of several PDFs; c.pdf is a file whose task yields no chunk (its
\* extraction fails or finds no text)
PoolFolders == {Folder({"a.pdf", "c.pdf"}), Folder({"a.pdf", "b.pdf", "c.pdf"})}

pool == threads.pool

SeqToSet(seq) == {seq[i] : i \in 1..Len(seq)}

\* an engine with any max_workers
pool_engine ==
    /\ pool.pc = "idle"
    /\ \E w \in 0..MaxWorkers, enable_caching \in BOOLEAN :
          new_engine([DefaultConfig EXCEPT !.max_workers = w], enable_caching, TRUE, "ok") /\ UNCHANGED server

\* build_retrieval_system up to the end of the executor.submit comprehension;
\* ThreadPoolExecutor(max_workers) raises ValueError when max_workers <= 0
executor_submit(folder) ==
    /\ pool.pc = "idle"
    /\ validate_pdf_folder(folder)
    /\ IF config.max_workers <= 0
       THEN /\ last' = Call("build", "ValueError")
            /\ UNCHANGED threads
       ELSE /\ threads' = [threads EXCEPT !.pool =
                    [IdlePool EXCEPT !.pc = "chunking", !.folder = folder,
                                     !.queue = folder.files]]
            /\ UNCHANGED last
    /\ UNCHANGED <<documents, vector_store, bm25, query_cache, faiss_file, bm25_file, now,
                   succeeded, persisted, config, embeddings, server>>

\* a worker thread takes a task from the queue; the executor starts no more
\* than max_workers threads and each runs one task at a time
worker_run(f) ==
    /\ pool.pc = "chunking"
    /\ f \in pool.queue
    /\ Cardinality(pool.running) < config.max_workers
    /\ threads' = [threads EXCEPT !.pool.queue = @ \ {f}, !.pool.running = @ \cup {f}]
    /\ UNCHANGED <<documents, vector_store, bm25, query_cache, faiss_file, bm25_file, now, last,
                   succeeded, persisted, config, embeddings, server>>

\* process_single_pdf returns (the chunks, or [] after an error): the future is done
worker_done(f) ==
    /\ pool.pc = "chunking"
    /\ f \in pool.running
    /\ threads' = [threads EXCEPT !.pool.running = @ \ {f}, !.pool.done = @ \cup {f}]
    /\ UNCHANGED <<documents, vector_store, bm25, query_cache, faiss_file, bm25_file, now, last,
                   succeeded, persisted, config, embeddings, server>>

\* one iteration of `for future in as_completed(future_to_file)`:
\* all_documents.extend(future.result())
as_completed_next(f) ==
    /\ pool.pc = "chunking"
    /\ f \in pool.done
    /\ f \notin SeqToSet(pool.collected)
    /\ threads' = [threads EXCEPT
                      !.pool.collected = Append(@, f),
                      !.pool.all_documents = @ \o process_single_pdf(f)]
    /\ UNCHANGED <<documents, vector_store, bm25, query_cache, faiss_file, bm25_file, now, last,
                   succeeded, persisted, config, embeddings, server>>

\* the loop over as_completed would end at the first future taken
as_completed_first == pool.collected # <<>>

\* the loop over as_completed ends: every future has been yielded
as_completed_exhausted == SeqToSet(pool.collected) = pool.folder.files

\* as_completed is exhausted, the `with` block has shut the executor down,
\* and build_retrieval_system runs to its end with the collected chunks
executor_join(emb, fault) ==
    /\ pool.pc = "chunking"
    /\ as_completed_exhausted
    /\ build_from(pool.folder, pool.all_documents, emb, fault) /\ UNCHANGED server
    /\ threads' = [threads EXCEPT !.pool.pc = "idle"]

NextPool ==
    \/ pool_engine
    \/ \E folder \in PoolFolders : executor_submit(folder)
    \/ \E f \in {"a.pdf", "b.pdf", "c.pdf"} :
          \/ worker_run(f)
          \/ worker_done(f)
          \/ as_completed_next(f)
    \/ \E fault \in BuildFaults :
          \E emb \in Embeddings(pool.all_documents, 0) : executor_join(emb, fault)

SpecPool == Init /\ [][NextPool]_vars

----------------------------------------------------------------------------
(* The HTTP server (backend/main.py).  Every endpoint is an `async def`     *)
(* that runs on the one event loop, and neither the start-up handler nor    *)
(* the background task awaits anything: while one of them is between its    *)
(* steps (pc is not "serving") no request is handled.                       *)

\* save_logs_to_file: the entries json.dump writes to persistent_logs.json
save_logs_to_file(logs) ==
    IF Len(logs) > MAX_LOG_ENTRIES THEN LastN(logs, MAX_LOG_ENTRIES) ELSE logs

\* load_logs_from_file
load_logs_from_file(file) == file

\* add_log: the server after one call
add_log(srv) ==
    LET log_entry == [id |-> Len(srv.system_logs) + 1]
        logs == Append(srv.system_logs, log_entry)
    IN  [srv EXCEPT !.system_logs = logs, !.logs_file = save_logs_to_file(logs)]

\* n calls of add_log
RECURSIVE add_logs(_, _)
add_logs(srv, n) == IF n = 0 THEN srv ELSE add_logs(add_log(srv), n - 1)

\* the handlers of the model stop logging at MaxLogs entries; two entries
\* are kept free for every background task that is queued and one for a
\* task that is building, so that a task that was accepted can always run
LogRoom(n) ==
    Len(server.system_logs) + n + 2 * Len(server.background)
        + (IF server.pc = "building" THEN 1 ELSE 0) <= MaxLogs

\* create_custom_retrieval_config
create_custom_retrieval_config == [DefaultConfig EXCEPT !.base_url = server.api_base_url]

\* the values the engine's attributes are given when no engine exists
NoEngine ==
    /\ documents' = <<>>
    /\ vector_store' = None
    /\ bm25' = None
    /\ query_cache' = NoCache
    /\ config' = DefaultConfig
    /\ embeddings' = Client(DefaultEndpoint, TRUE)
    /\ succeeded' = FALSE

\* the process ends: its globals and its engine are gone, the files stay
server_stop ==
    /\ server.pc = "serving"
    /\ server' = [NoServer EXCEPT !.logs_file = server.logs_file,
                                  !.uploads = server.uploads]
    /\ NoEngine
    /\ last' = Call("stop", "ok")
    /\ UNCHANGED <<faiss_file, bm25_file, now, persisted, threads>>

\* the module is imported (the globals are initialised, system_logs is read
\* from the file) and startup_event runs up to the construction of the engine
startup_event(api_base_url, trial) ==
    /\ server.pc = "down"
    /\ \E cfg \in {[DefaultConfig EXCEPT !.base_url = api_base_url]} :
          new_engine(cfg, TRUE, TRUE, trial)
    /\ \E started \in {add_logs([NoServer EXCEPT
                                    !.api_base_url = api_base_url,
                                    !.system_logs = load_logs_from_file(server.logs_file),
                                    !.logs_file = server.logs_file,
                                    !.uploads = server.uploads], 5)} :
          server' = IF last'.status = "ok"
                    THEN [started EXCEPT !.pc = "startup_load", !.retriever = TRUE]
                    ELSE [add_log(started) EXCEPT !.pc = "serving"]

\* startup_event from `if retriever.load_retrieval_system()` on
startup_load(fault) ==
    /\ server.pc = "startup_load"
    /\ load_retrieval_system(fault)
    /\ server' = [add_log(server) EXCEPT !.pc = "serving"]

\* file.filename.lower().endswith('.pdf')
endswith_pdf(filename) == filename \in {"a.pdf", "b.pdf", "c.pdf"}

\* the request bodies of /api/upload: the filenames of the files sent
UploadRequests ==
    {<<"a.pdf">>, <<"c.pdf">>, <<"a.pdf", "c.pdf">>, <<"notes.txt">>,
     <<"a.pdf", "notes.txt">>}

\* the position of the first file of the request that is not a PDF, or 0
FirstRejected(files) ==
    IF \A i \in 1..Len(files) : endswith_pdf(files[i]) THEN 0
    ELSE CHOOSE i \in 1..Len(files) :
            /\ ~endswith_pdf(files[i])
            /\ \A j \in 1..(i - 1) : endswith_pdf(files[j])

\* upload_files: the directory is made, the files are saved in order until
\* one is not a PDF; the HTTPException(400) raised for it inside the `try`
\* is caught by `except Exception` and answered with status 500
upload_files(files) ==
    /\ server.pc = "serving"
    /\ Len(server.uploads) < MaxUploads
    /\ LogRoom(Len(files) + 1)
    /\ LET rejected == FirstRejected(files)
           saved == IF rejected = 0 THEN Len(files) ELSE rejected - 1
           upload_dir == [exists |-> TRUE, files |-> {files[i] : i \in 1..saved}]
           logged == add_logs(server, IF rejected = 0 THEN saved ELSE saved + 1)
       IN  server' = [logged EXCEPT
                        !.uploads = Append(@, upload_dir),
                        !.response = IF rejected = 0
                                     THEN Response("upload", 200, "")
                                     ELSE Response("upload", 500, files[rejected])]
    /\ UNCHANGED <<documents, vector_store, bm25, query_cache, faiss_file, bm25_file, now, last,
                   succeeded, persisted, config, embeddings, threads>>

\* process_documents
process_documents(upload_id) ==
    /\ server.pc = "serving"
    /\ IF upload_id \notin 1..Len(server.uploads)
       THEN server' = [server EXCEPT !.response = Response("process", 404, "")]
       ELSE /\ Len(server.background) < MaxQueue
            /\ LogRoom(3)
            /\ server' = [add_log([server EXCEPT !.processing_status = "processing"]) EXCEPT
                             !.background = Append(@, upload_id),
                             !.response = Response("process", 200, "")]
    /\ UNCHANGED <<documents, vector_store, bm25, query_cache, faiss_file, bm25_file, now, last,
                   succeeded, persisted, config, embeddings, threads>>

\* process_documents_background up to `retriever = TradingKnowledgeRetriever(config)`;
\* when the constructor raises, the global keeps the engine it had
process_documents_background(trial) ==
    /\ server.pc = "serving"
    /\ server.background # <<>>
    /\ \E cfg \in {create_custom_retrieval_config} : new_engine(cfg, TRUE, TRUE, trial)
    /\ \E started \in {add_log([server EXCEPT !.processing_status = "processing",
                                               !.background = Tail(@),
                                               !.response = NoResponse])} :
          server' = IF last'.status = "ok"
                    THEN [started EXCEPT !.pc = "building", !.retriever = TRUE,
                                         !.task = Head(server.background),
                                         !.built_from = 0]
                    ELSE [add_log(started) EXCEPT !.processing_status = "error"]

\* the processing_status the end of the task leaves, were a failed build
\* not to change it
final_status_unset_on_error(status) == IF status = "ok" THEN "completed" ELSE "processing"

\* the processing_status the end of the task leaves: `completed` after the
\* build returned, `error` from the `except Exception`
final_status(status) == IF status = "ok" THEN "completed" ELSE "error"

\* process_documents_background from `retriever.build_retrieval_system(...)` on
background_build(order, emb, fault) ==
    /\ server.pc = "building"
    /\ build_retrieval_system(Folder(server.uploads[server.task].files), order, emb, fault)
    /\ server' = [add_log(server) EXCEPT
                     !.pc = "serving", !.task = 0,
                     !.processing_status = final_status(last'.status),
                     !.built_from = IF last'.status = "ok" THEN server.task ELSE 0]

\* chat_query behind Depends(get_retriever): 503 when the global is None,
\* 500 when retrieve_documents raises, 200 otherwise (generate_llm_response
\* catches its own errors)
chat_query(query) ==
    /\ server.pc = "serving"
    /\ IF ~server.retriever
       THEN /\ server' = [server EXCEPT !.response = Response("chat", 503, "")]
            /\ UNCHANGED <<documents, vector_store, bm25, query_cache, faiss_file, bm25_file,
                           now, last, succeeded, persisted, config, embeddings, threads>>
       ELSE /\ LogRoom(1)
            /\ retrieve_documents(query, ChatK, "hybrid", TRUE)
            /\ server' = [add_log(server) EXCEPT
                             !.response = Response("chat",
                                                   IF last'.status = "ok" THEN 200 ELSE 500,
                                                   "")]

Background ==
    \/ \E trial \in TrialOutcomes : process_documents_background(trial)
    \/ /\ server.pc = "building"
       /\ \E fault \in BuildFaults :
            \E order \in CompletionOrders(server.uploads[server.task].files) :
              \E emb \in Embeddings(load_and_chunk_documents(order), 0) :
                 background_build(order, emb, fault)

Serving ==
    \/ \E files \in UploadRequests : upload_files(files)
    \/ \E upload_id \in 1..(MaxUploads + 1) : process_documents(upload_id)
    \/ \E query \in Queries : chat_query(query)
    \/ Background

Startup ==
    \/ \E api_base_url \in BaseUrls, trial \in TrialOutcomes :
          startup_event(api_base_url, trial)
    \/ \E fault \in LoadFaults : startup_load(fault)

\* a server that is started, used, stopped and started again
NextServer == Startup \/ Serving \/ server_stop

SpecServer == Init /\ [][NextServer]_vars

\* a server that is started once and stays up; a background task that was
\* added runs once the response has been sent
NextServerUp == Startup \/ Serving

SpecServerLive == Init /\ [][NextServerUp]_vars /\ WF_vars(Background)

----------------------------------------------------------------------------
(* Construction: TradingKnowledgeRetriever(config) with any RetrievalConfig *)

Construct ==
    \E cfg \in Configs, api_key \in BOOLEAN, trial \in TrialOutcomes :
        new_engine(cfg, TRUE, api_key, trial) /\ UNCHANGED server

NextConfig == Construct

SpecConfig == Init /\ [][NextConfig]_vars

----------------------------------------------------------------------------
(* Claims checked under SpecCache *)

\* C1: with caching enabled, a retrieve_documents call that follows a
\* successful one for the same query text less than cache_ttl later returns
\* the identical RetrievalResult and runs none of the three retrieval
\* methods.  Stated for two consecutive calls that also agree on k, method
\* and return_scores.
C1_CacheIdempotence ==
    [][(/\ ~query_cache.is_none
        /\ last.op = "retrieve" /\ last.status = "ok"
        /\ last'.op = "retrieve" /\ now' = now
        /\ last'.query = last.query /\ last'.args = last.args
        /\ now' - last.at < cache_ttl)
          => (last'.result = last.result /\ ~last'.scored)]_vars

\* the step is a retrieve_documents call for the query of the call before
\* it, which was a retrieve_documents call that computed and returned a fresh
\* result with caching enabled (so that the result was to be stored under
\* the query's hash with timestamp last.at)
RetrieveAfterStore ==
    /\ ~query_cache.is_none
    /\ last.op = "retrieve" /\ last.status = "ok" /\ last.scored
    /\ last'.op = "retrieve" /\ now' = now
    /\ last'.query = last.query

CacheStaysEmpty == DOMAIN query_cache.dict = {}

----------------------------------------------------------------------------
(* Claims checked under Spec *)

Loaded == loaded(vector_store, bm25)

\* C3: a load_retrieval_system call that returns False leaves vector_store,
\* bm25 and documents exactly as they were before the call.
C3_FailedLoadLeavesState ==
    [][(last'.op = "load" /\ last'.status = "False")
          => UNCHANGED <<vector_store, bm25, documents>>]_vars

\* C4: a build_retrieval_system call that raises leaves documents,
\* vector_store and bm25 unchanged.
C4_FailedBuildLeavesState ==
    [][(last'.op = "build" /\ last'.status # "ok")
          => UNCHANGED <<documents, vector_store, bm25>>]_vars

\* C5: whatever is on disk after a save, successful or failed, comes from one
\* build: a readable artifact at either path has a readable partner at the
\* other path holding the same corpus and the lexical index of that corpus.
C5_PersistedAsUnit ==
    (faiss_file.state = "ok" \/ bm25_file.state = "ok") =>
        /\ faiss_file.state = "ok"
        /\ bm25_file.state = "ok"
        /\ bm25_file.documents = faiss_file.store.docs
        /\ bm25_file.bm25 = BM25Okapi(faiss_file.store.docs)

\* C6: an unloaded engine becomes loaded only in a build that returns
\* normally or a load that returns True, and no retrieve, build or load on a
\* loaded engine makes it unloaded.
C6_EngineStateMachine ==
    [][/\ (~Loaded /\ Loaded') =>
              \/ (last'.op = "build" /\ last'.status = "ok")
              \/ (last'.op = "load" /\ last'.status = "True")
       /\ (Loaded /\ last'.op \in {"retrieve", "build", "load"}) => Loaded']_vars

\* C7: retrieve_documents on an engine on which no build or load has succeeded
\* fails with the not-loaded error and changes neither the indices nor the cache.
C7_UnloadedQueryFails ==
    [][(last'.op = "retrieve" /\ ~succeeded) =>
          /\ last'.status = "NotLoaded"
          /\ UNCHANGED <<vector_store, bm25, documents, query_cache>>]_vars

\* C8: on a loaded engine retrieve_documents fails with the unknown-method
\* error when method is not one of the three recognized values and returns a
\* result when it is one of them.
C8_MethodDispatch ==
    [][(last'.op = "retrieve" /\ Loaded) =>
          IF last'.args[2] \in {"hybrid", "faiss", "bm25"}
          THEN last'.status = "ok"
          ELSE last'.status = "UnknownMethod"]_vars

\* the last call was a build during which the embedding of a chunk raised
EmbeddingFailed == last.op = "build" /\ last.status = "FaissBuildError"

\* C13: a build during which the embedding of one chunk fails still leaves
\* the engine loaded: the stored corpus and the lexical index hold every
\* chunk, the failed one included, and the semantic index holds the others.
C13_PartialFailureBuild ==
    [][EmbeddingFailed' =>
          /\ Loaded'
          /\ bm25' = BM25Okapi(documents')
          /\ \E c \in 1..Len(documents') :
                \A i \in 1..Len(vector_store'.docs) : vector_store'.docs[i] # documents'[c]
          /\ \A i \in 1..Len(vector_store'.docs) :
                \E c \in 1..Len(documents') : vector_store'.docs[i] = documents'[c]]_vars

\* C17: a retrieve_documents call, whether it returns a result or raises,
\* changes neither vector_store, bm25, documents and config nor the
\* persisted artifacts; of the engine's state only query_cache may change.
C17_RetrieveFrame ==
    [][last'.op = "retrieve" =>
          UNCHANGED <<vector_store, bm25, documents, config, faiss_file, bm25_file>>]_vars

\* C17 witness: a retrieve_documents call on a loaded engine has returned
\* chunks.
C17_Witness ==
    /\ last.op = "retrieve" /\ last.status = "ok"
    /\ Loaded
    /\ Len(last.result.documents) >= 1
    /\ Len(documents) > Len(last.result.documents)

C19_EmptyBuildFails ==
    [][(last'.op = "build" /\ last'.status = "NoDocuments") =>
          UNCHANGED <<documents, vector_store, bm25, faiss_file, bm25_file>>]_vars

\* C19 witness: a build that found no chunks has raised on an engine that
\* holds a corpus and both indices, next to artifacts saved earlier.
C19_Witness ==
    /\ last.op = "build" /\ last.status = "NoDocuments"
    /\ Loaded
    /\ documents # <<>>
    /\ faiss_file.state = "ok" /\ bm25_file.state = "ok"

----------------------------------------------------------------------------
(* Claims checked under SpecHybrid *)

\* the last call was a hybrid retrieve_documents that returned a result
HybridReturned ==
    last.op = "retrieve" /\ last.status = "ok" /\ last.args[2] = "hybrid"

\* the k the last call worked with
LastK == IF last.args[1] = 0 THEN top_k_retrieval ELSE last.args[1]

\* the semantic candidates of the last call, in returned order
SemanticCandidates ==
    LET found == similarity_search_with_score(vector_store, last.query, LastK)
    IN  [i \in 1..Len(found) |-> found[i].doc]

\* the lexical candidates of the last call, in rank order
LexicalCandidates ==
    LET top == top_indices(get_scores(bm25, split(last.query)), LastK)
    IN  [i \in 1..Len(top) |-> documents[top[i]]]

HasDuplicate(docs) ==
    \E i, j \in 1..Len(docs) :
        i < j /\ md5(docs[i].page_content) = md5(docs[j].page_content)

\* docs without every element whose content hash occurred earlier in docs
FirstOccurrences(docs) ==
    LET keep == {i \in 1..Len(docs) :
                    \A j \in 1..(i - 1) :
                        md5(docs[j].page_content) # md5(docs[i].page_content)}
        pos(r) == CHOOSE i \in keep : Cardinality({j \in keep : j < i}) = r - 1
    IN  [r \in 1..Cardinality(keep) |-> docs[pos(r)]]

Contents(docs) == {docs[i].page_content : i \in 1..Len(docs)}

\* C9: the document list returned by hybrid retrieval holds no two chunks
\* with the same content hash.
C9_HybridDedup == HybridReturned => ~HasDuplicate(last.result.documents)

\* C9 witness: a hybrid result of two or more chunks was returned although
\* the semantic candidates held a duplicate and a lexical candidate repeated
\* the content of a semantic one.
C9_Witness ==
    /\ HybridReturned
    /\ Len(last.result.documents) >= 2
    /\ HasDuplicate(SemanticCandidates)
    /\ Contents(SemanticCandidates) \cap Contents(LexicalCandidates) # {}

\* C10: the hybrid result is the first k elements of the semantic candidates
\* followed by the lexical candidates with only the first occurrence of each
\* content hash kept; every chunk taken from the semantic candidates precedes
\* every lexical-only chunk; and the result has fewer than k chunks only when
\* it holds the content of every candidate of both lists.
C10_HybridMerge ==
    HybridReturned =>
        LET res == last.result.documents
            sem == Contents(SemanticCandidates)
        IN  /\ res = Take(FirstOccurrences(SemanticCandidates \o LexicalCandidates), LastK)
            /\ \A i, j \in 1..Len(res) :
                   (res[i].page_content \notin sem /\ res[j].page_content \in sem) => j < i
            /\ Len(res) < LastK =>
                   Contents(SemanticCandidates) \cup Contents(LexicalCandidates)
                       = Contents(res)

\* C10 witness: a hybrid result that ends with a lexical-only chunk placed
\* after a semantic one, the semantic candidates having held a duplicate.
C10_Witness ==
    /\ HybridReturned
    /\ Len(last.result.documents) >= 2
    /\ HasDuplicate(SemanticCandidates)
    /\ last.result.documents[Len(last.result.documents)].page_content
           \notin Contents(SemanticCandidates)
    /\ last.result.documents[1].page_content \in Contents(SemanticCandidates)

----------------------------------------------------------------------------
(* Claims checked under SpecConc *)

\* the reader's call has read vector_store, bm25 and documents
ReaderReadAll == threads.reader.status \in {"merged", "ok", "IndexError"}

\* C2: whatever the interleaving of a retrieve_documents call with a build or
\* a load, the vector_store, bm25 and documents that the query read belong
\* to one index set: the store indexes exactly the documents read and the
\* lexical index is the one built from them.
C2_AtomicIndexReplacement ==
    ReaderReadAll =>
        /\ threads.reader.vector_store.docs = threads.reader.documents
        /\ threads.reader.bm25 = BM25Okapi(threads.reader.documents)

----------------------------------------------------------------------------
(* Claims checked under SpecLexical *)

LexicalReturned ==
    last.op = "retrieve" /\ last.status = "ok" /\ last.args[2] = "bm25"

\* the score of every corpus chunk for the query of the last call
LastScores == get_scores(bm25, split(last.query))

\* the corpus positions of the chunks of the last result, in result order
ResultPositions ==
    [r \in 1..Len(last.result.documents) |->
        CHOOSE i \in 1..Len(documents) : documents[i] = last.result.documents[r]]

\* the place of corpus position i in the last result, 0 when it is left out
RankOf(i) ==
    IF \E r \in 1..Len(ResultPositions) : ResultPositions[r] = i
    THEN CHOOSE r \in 1..Len(ResultPositions) : ResultPositions[r] = i
    ELSE 0

\* C11: in lexical-only retrieval, of two corpus chunks with equal scores the
\* one earlier in the corpus is ranked ahead of the later one, and is the one
\* kept when only one of them is in the result.
C11_LexicalTieBreak ==
    LexicalReturned =>
        \A i, j \in 1..Len(documents) :
            (i < j /\ LastScores[i] = LastScores[j] /\ RankOf(j) # 0)
                => (RankOf(i) # 0 /\ RankOf(i) < RankOf(j))

\* C12: lexical-only retrieval with k > 0 over N chunks returns min(k, N)
\* chunks in non-increasing score order, no chunk left out scores strictly
\* higher than a chunk of the result, and every corpus chunk has a score.
C12_LexicalTopK ==
    LexicalReturned =>
        LET pos == ResultPositions
            N == Len(documents)
        IN  /\ Len(LastScores) = N
            /\ Len(pos) = IF LastK < N THEN LastK ELSE N
            /\ \A r, t \in 1..Len(pos) : r # t => pos[r] # pos[t]
            /\ \A r \in 1..(Len(pos) - 1) : LastScores[pos[r]] >= LastScores[pos[r + 1]]
            /\ \A i \in 1..N :
                   RankOf(i) = 0 => \A r \in 1..Len(pos) : LastScores[i] <= LastScores[pos[r]]

\* C12 witness: a lexical result that leaves a chunk out, ranks a chunk with
\* a higher score ahead of one with a lower score, and was taken from a
\* corpus in which one chunk shares no token with the query.
C12_Witness ==
    /\ LexicalReturned
    /\ Len(last.result.documents) = 2
    /\ Len(documents) = 3
    /\ LastScores[ResultPositions[1]] > LastScores[ResultPositions[2]]
    /\ \E i \in 1..Len(documents) : LastScores[i] = 0

----------------------------------------------------------------------------
(* Claims checked under SpecQueries *)

\* both threads have returned a freshly computed result with caching enabled
BothStored ==
    /\ ~query_cache.is_none
    /\ \A t \in Readers : threads[t].pc = "idle" /\ threads[t].status = "ok"

----------------------------------------------------------------------------
(* Claims checked under SpecConfig *)

\* the invariant the specification gives for a configuration
ValidConfig(cfg) ==
    /\ cfg.chunk_overlap < cfg.chunk_size
    /\ cfg.top_k_retrieval > 0
    /\ cfg.max_workers >= 1

\* C20: no engine exists whose configuration violates
\* chunk_overlap < chunk_size, top_k_retrieval > 0 or max_workers >= 1:
\* constructing one with such a configuration fails.
C20_ConfigValidated == ValidConfig(config)

\* the last operation was a construction with an API key set: the
\* configured base_url, the way the trial call ended, and the number of
\* fallback clients that were constructed
Constructed == last.op = "init" /\ last.status # "NoApiKey" /\ Len(last.args) = 3

\* C21: construction falls back to the default endpoint only when the trial
\* call failed with an access-denied error and a custom base_url was
\* configured; with no base_url configured an access-denied trial failure
\* makes construction fail; the fallback is attempted at most once.
C21_FallbackOnlyWithOverride ==
    Constructed =>
        /\ last.args[3] <= 1
        /\ last.args[3] = 1 => (last.args[2] = "forbidden" /\ last.args[1] # NoBaseUrl)
        /\ (last.args[2] = "forbidden" /\ last.args[1] = NoBaseUrl) => last.status # "ok"

\* C22: a construction that returns an engine left it an embedding client
\* whose endpoint a trial call has succeeded against, and a trial failure
\* that is not access-denied makes construction fail.
C22_ClientProbed ==
    /\ embeddings.probed
    /\ (Constructed /\ last.args[2] \in {"empty", "error"}) => last.status # "ok"

\* C27: get_system_stats reports status "loaded" exactly when
\* retrieve_documents would not fail with the not-loaded error, that is
\* when both vector_store and bm25 are present, after any sequence of
\* successful and failed builds and loads.
C27_StatsAgreeWithQueries ==
    (get_system_stats.status = "loaded") <=> loaded(vector_store, bm25)

----------------------------------------------------------------------------
(* Claims checked under SpecPool *)

\* the chunks the task of file f returns
TaskFailed(f) == process_single_pdf(f) = <<>>

\* C23: the worker pool of a build is a join-all barrier.  No more than
\* max_workers tasks run at once; the rest of the build (the emptiness test,
\* the assignment of the corpus and the construction of the indices) starts
\* only when no submitted task is queued or running; and the chunks it
\* starts with are those of every task that returned any, whether or not
\* another task of the same build failed.
C23_JoinAllBarrier ==
    /\ [][Cardinality(pool.running') <= config.max_workers']_vars
    /\ [][(pool.pc = "chunking" /\ pool'.pc = "idle") =>
            /\ pool.queue = {} /\ pool.running = {}
            /\ pool.done = pool.folder.files
            /\ \A f \in pool.folder.files :
                  \A i \in 1..Len(process_single_pdf(f)) :
                    \E j \in 1..Len(pool.all_documents) :
                       pool.all_documents[j] = process_single_pdf(f)[i]
            /\ (last'.status = "ok" => documents' = pool.all_documents)]_vars

\* a build of three files whose failing task was the first to be collected
\* has returned normally with the chunks of the two other tasks
C23_Witness ==
    /\ pool.pc = "idle" /\ last.op = "build" /\ last.status = "ok"
    /\ pool.folder.files = {"a.pdf", "b.pdf", "c.pdf"}
    /\ TaskFailed("c.pdf")
    /\ pool.collected[1] = "c.pdf"
    /\ Len(documents) = 3

\* the chunks of file f in the corpus, in corpus order
ChunksOf(f) ==
    LET FromF(d) == d.filename = f IN SelectSeq(documents, FromF)

\* C29: whatever the order in which the chunking tasks complete, the corpus
\* of a build keeps the chunks of one file next to each other and in
\* ascending chunk_index order (so no two chunks share filename and
\* chunk_index), every chunk has non-whitespace content, and the chunks of
\* each file are those of its task: only the order of the files varies.
C29_CorpusShape ==
    /\ \A i \in 1..Len(documents) : strip_nonempty(documents[i].page_content)
    /\ \A i, j \in 1..Len(documents) :
          (i < j /\ documents[i].filename = documents[j].filename) =>
             /\ documents[i].chunk_index < documents[j].chunk_index
             /\ \A m \in i..j : documents[m].filename = documents[i].filename
    /\ (pool.pc = "idle" /\ documents # <<>>) =>
          \A f \in pool.folder.files : ChunksOf(f) = process_single_pdf(f)

\* a corpus in which the chunks of b.pdf come before the two of a.pdf, one
\* of whose chunks was blank and dropped
C29_Witness ==
    /\ pool.pc = "idle" /\ last.op = "build"
    /\ Len(documents) = 3
    /\ documents[1].filename = "b.pdf"
    /\ documents[2].filename = "a.pdf" /\ documents[2].chunk_index = 0
    /\ documents[3].filename = "a.pdf" /\ documents[3].chunk_index = 2

----------------------------------------------------------------------------
(* Claims checked under SpecScores *)

\* the semantic distance of a chunk of the corpus to the last query
DistanceOf(doc) ==
    LET i == CHOOSE i \in 1..Len(vector_store.docs) : vector_store.docs[i] = doc
        d == vector_store.emb[i] - embed_query(last.query)
    IN  d * d

\* the ranking-model score of a chunk of the corpus for the last query
RankingScoreOf(doc) ==
    LET i == CHOOSE i \in 1..Len(documents) : documents[i] = doc
    IN  get_scores(bm25, split(last.query))[i]

\* the score the chunk at position i of the last result should carry
ExpectedScore(i) ==
    LET doc == last.result.documents[i]
        method == last.args[2]
    IN  IF method = "faiss" THEN DistanceOf(doc)
        ELSE IF method = "bm25" THEN RankingScoreOf(doc)
        ELSE IF doc.page_content \in Contents(SemanticCandidates) THEN DistanceOf(doc)
        ELSE RankingScoreOf(doc)

\* C24: in the RetrievalResult of each of the three methods, with
\* return_scores the scores list is as long as the documents list and
\* scores[i] is the score of documents[i] (its semantic distance when the
\* chunk came from the semantic candidates, its ranking-model score when it
\* came from the lexical candidates); without return_scores the scores list
\* is empty; and total_candidates is the size of the corpus.
C24_ScoresParallel ==
    (last.op = "retrieve" /\ last.status = "ok") =>
        LET res == last.result
        IN  /\ last.args[3] =>
                  /\ Len(res.scores) = Len(res.documents)
                  /\ \A i \in 1..Len(res.documents) : res.scores[i] = ExpectedScore(i)
            /\ ~last.args[3] => res.scores = <<>>
            /\ res.total_candidates = Len(documents)

\* a scored hybrid result whose first chunk came from the semantic
\* candidates with a distance other than its ranking-model score and whose
\* second came from the lexical candidates only
C24_Witness ==
    /\ last.op = "retrieve" /\ last.status = "ok" /\ last.args[2] = "hybrid" /\ last.args[3]
    /\ Len(last.result.documents) = 2
    /\ last.result.documents[2].page_content \notin Contents(SemanticCandidates)
    /\ DistanceOf(last.result.documents[1]) # RankingScoreOf(last.result.documents[1])
    /\ last.result.scores[2] # DistanceOf(last.result.documents[2])

----------------------------------------------------------------------------
(* Claims checked under SpecServer and SpecServerLive *)

\* the step handles a request to /api/chat
ChatStep ==
    /\ server.pc = "serving" /\ server'.pc = "serving"
    /\ server' # server
    /\ server'.response.op = "chat"

\* C25: a chat query that arrives while no retrieval system is loaded (the
\* global retriever is None, or is an engine without both indices) is
\* answered with status 503.
C25_UnloadedChatIs503 ==
    [][(ChatStep /\ ~(server.retriever /\ loaded(vector_store, bm25)))
          => server'.response.code = 503]_vars

\* the step handles a request to /api/upload
UploadStep == Len(server'.uploads) = Len(server.uploads) + 1

\* C26: an upload request with a file whose name does not end in .pdf is
\* answered with status 400 naming that file, and none of its files is
\* left in the upload directory.
C26_RejectedUpload ==
    [][(UploadStep /\ server'.response.code # 200) =>
          /\ server'.response.code = 400
          /\ ~endswith_pdf(server'.response.detail)
          /\ server'.uploads[Len(server'.uploads)].files = {}]_vars

\* C28: no two entries of system_logs have the same id, whatever add_log
\* calls and restarts of the server came before.
C28_LogIdsUnique ==
    \A i, j \in 1..Len(server.system_logs) :
        i # j => server.system_logs[i].id # server.system_logs[j].id

\* the step ends a background task
TaskEnds ==
    \/ server.pc = "building" /\ server'.pc = "serving"
    \/ /\ server.pc = "serving" /\ server'.pc = "serving"
       /\ Len(server'.background) < Len(server.background)

\* C30: a document-processing run leaves processing_status at completed or
\* error when its background task ends, processing_status does not stay at
\* processing for ever, and it is completed only while the global retriever
\* is a loaded engine whose indices were built from the upload of the run.
C30_ProcessingEnds ==
    /\ [][TaskEnds => server'.processing_status \in {"completed", "error"}]_vars
    /\ [](server.processing_status = "completed" =>
            /\ server.retriever /\ loaded(vector_store, bm25)
            /\ server.built_from \in 1..Len(server.uploads)
            /\ \A i \in 1..Len(documents) :
                  documents[i].filename \in server.uploads[server.built_from].files)
    /\ (server.processing_status = "processing")
          ~> (server.processing_status \in {"completed", "error"})

\* the run for the second upload has completed and the engine holds the
\* two chunks of its file
C30_Witness ==
    /\ server.pc = "serving" /\ server.processing_status = "completed"
    /\ server.built_from = 2
    /\ Len(documents) = 2
    /\ last.op = "build" /\ last.status = "ok"

====
